---- MODULE Spec2Model ----
(***************************************************************************)
(* Model of optical_flow_ros/optical_flow_publisher.py: the lifecycle node *)
(* OpticalFlowPublisher (on_configure, on_activate, on_deactivate,         *)
(* on_cleanup, on_shutdown, terminate, publish_odom) and main().           *)
(*                                                                         *)
(* Python floats are modelled as binary floating-point numbers with a      *)
(* MantissaBits-bit significand, an unbounded exponent and round-to-       *)
(* nearest-even, so that every +, -, * and / of publish_odom rounds as     *)
(* the interpreter's arithmetic does (with fewer bits).                    *)
(***************************************************************************)
EXTENDS Integers, Sequences, FiniteSets, TLC

\* ------------------------------------------------------------------ bounds
MantissaBits == 8
MaxTicks == 2
MaxLifecycleTicks == 1
MaxConfigures == 2
MaxCancelCalls == 2

\* ------------------------------------------------- floating-point numbers
RECURSIVE Pow2(_)
Pow2(n) == IF n <= 0 THEN 1 ELSE 2 * Pow2(n - 1)

Abs(n) == IF n < 0 THEN -n ELSE n
Sgn(n) == IF n < 0 THEN -1 ELSE 1

Zero == [m |-> 0, e |-> 0]

\* 2^MantissaBits: the significands are the integers below it
TwoP == Pow2(MantissaBits)

\* q (plus a non-zero remainder when sticky) times 2^e, q >= 2^MantissaBits:
\* drop low bits until MantissaBits+1 remain, then round half to even.
RECURSIVE RoundBits(_, _, _, _)
RoundBits(sign, q, sticky, e) ==
    IF q >= 2 * TwoP
    THEN RoundBits(sign, q \div 2, sticky \/ (q % 2 = 1), e + 1)
    ELSE LET m0 == q \div 2
             up == (q % 2 = 1) /\ (sticky \/ (m0 % 2 = 1))
             m1 == IF up THEN m0 + 1 ELSE m0
         IN IF m1 = TwoP
            THEN [m |-> sign * (TwoP \div 2), e |-> e + 2]
            ELSE [m |-> sign * m1, e |-> e + 1]

\* the float nearest to (num / den) * 2^e, den > 0
RECURSIVE RoundRat(_, _, _)
RoundRat(num, den, e) ==
    IF num = 0 THEN Zero
    ELSE IF Abs(num) < den * TwoP
         THEN RoundRat(2 * num, den, e - 1)
         ELSE RoundBits(Sgn(num), Abs(num) \div den, Abs(num) % den # 0, e)

FromInt(n) == RoundRat(n, 1, 0)
FromRat(num, den) == RoundRat(num, den, 0)

FNeg(a) == [m |-> -a.m, e |-> a.e]

FAdd(a, b) ==
    IF a.m = 0 THEN b
    ELSE IF b.m = 0 THEN a
    ELSE IF a.e - b.e >= MantissaBits + 2 THEN a
    ELSE IF b.e - a.e >= MantissaBits + 2 THEN b
    ELSE LET e == IF a.e < b.e THEN a.e ELSE b.e
         IN RoundRat(a.m * Pow2(a.e - e) + b.m * Pow2(b.e - e), 1, e)

FSub(a, b) == FAdd(a, FNeg(b))
FMul(a, b) == RoundRat(a.m * b.m, 1, a.e + b.e)
FDiv(a, b) == RoundRat(Sgn(b.m) * a.m, Abs(b.m), a.e - b.e)


\* ------------------------------------------------------ program constants
None == 0
Deleted == -1
FOV_DEG == 42
RES_PIX == 35
\* alpha = 0.9
alpha == FromRat(9, 10)
\* np.tan(np.radians(FOV_DEG)/2) = 0.38386...
TanHalfFov == FromRat(3839, 10000)

\* declare_parameters: the defaults of the parameters the handlers read
DefaultParams ==
    [timer_period |-> FromRat(1, 100), sensor_timeout |-> 1,
     parent_frame |-> "odom", child_frame |-> "base_link",
     board |-> "pmw3901", scaler |-> 5, pmw3901_scaler |-> FromRat(45, 100),
     publish_tf |-> TRUE]

\* ----------------------------------------------------------- input sets
Boards == {"pmw3901", "paa5100", "other"}
\* x_init, y_init
InitCoords == {<<1, 0>>}
OdomInitCoords == {<<0, 0>>, <<1, 0>>}
RangesMm == {0, 800}
Motions == {<<0, 0>>, <<1, 0>>, <<0, 1>>, <<3, -2>>}
\* what reading the range sensor gives: millimetres, or an exception
RangeRaises == -1
RangeAnswers == RangesMm \cup {RangeRaises}
\* what get_motion gives: (dx, dy), or RuntimeError on timeout
MotionRaises == <<>>
MotionAnswers == Motions \cup {MotionRaises}
FlowOpenOutcomes == {"ok", "ctor_raises", "set_rotation_raises"}
\* values a parameter service call may set while the node exists
ParamNames == {"board", "publish_tf"}
ParamValues(name) == IF name = "board" THEN Boards ELSE BOOLEAN

\* create_timer is called once per successful configure
TimerIds == 1 .. MaxConfigures

LifecycleStates == {"Unconfigured", "Inactive", "Active", "Finalized"}
Transitions == {"configure", "activate", "deactivate", "cleanup", "shutdown"}

\* rcl_lifecycle default state machine: the states a transition starts from
ValidFrom(tr) ==
    CASE tr = "configure" -> {"Unconfigured"}
      [] tr = "activate" -> {"Inactive"}
      [] tr = "deactivate" -> {"Active"}
      [] tr = "cleanup" -> {"Inactive"}
      [] tr = "shutdown" -> {"Unconfigured", "Inactive", "Active"}

\* ----------------------------------------------------------------- state
VARIABLES
    lc,                   \* lifecycle state of the node
    params,               \* the node's declared parameters
    at_configure,         \* <<params>> as the configure that set up the live
                          \* pipeline saw them, <<>> once terminate has run
    _odom_pub, _tf_broadcaster, _timer, _laser_range_finder, _sensor,
    _pos_x, _pos_y, _filtered_dx, _filtered_dy,
    _scaler, _pmw3901_scaler, _dt,
    rcl,                  \* the node's timers and publishers in rclpy
    hw,                   \* hardware sessions opened so far
    spin,                 \* main(): "spinning", "exception", "exited"
    ticks,                \* the node's clock: the stamps handed out so far
    last,                 \* the handler that ran last and how it ended
    out                   \* what the last handler read and sent

vars == <<lc, params, at_configure, _odom_pub, _tf_broadcaster, _timer, _laser_range_finder,
          _sensor, _pos_x, _pos_y, _filtered_dx, _filtered_dy, _scaler,
          _pmw3901_scaler, _dt, rcl, hw, spin, ticks, last, out>>

poseVars == <<_pos_x, _pos_y, _filtered_dx, _filtered_dy>>
initVars == <<_scaler, _pmw3901_scaler, _dt>>
handleVars == <<_odom_pub, _tf_broadcaster, _timer, _laser_range_finder, _sensor>>

\* timers that can still fire: created, neither cancelled nor destroyed
Armed(r) == r.timers \ r.cancelled

NoOut == [odom |-> <<>>, tf |-> <<>>, reads |-> <<>>, tick |-> <<>>, opens |-> <<>>]

Done(op, accepted, ret, raised, log, terminated) ==
    [op |-> op, accepted |-> accepted, ret |-> ret,
     raised |-> raised, log |-> log, terminated |-> terminated]

\* OpticalFlowPublisher.__init__
Init ==
    /\ lc = "Unconfigured"
    /\ params = DefaultParams
    /\ at_configure = <<>>
    /\ _odom_pub = None
    /\ _tf_broadcaster = None
    /\ _timer = None
    /\ _laser_range_finder = None
    /\ _sensor = None
    /\ \E init \in InitCoords :
          /\ _pos_x = FromInt(init[1])
          /\ _filtered_dx = FromInt(init[1])
          /\ _pos_y = FromInt(init[2])
          /\ _filtered_dy = FromInt(init[2])
    /\ _scaler = DefaultParams.scaler
    /\ _pmw3901_scaler = DefaultParams.pmw3901_scaler
    /\ _dt = DefaultParams.timer_period
    /\ rcl = [timers |-> {}, cancelled |-> {}, publishers |-> {}, managed |-> {},
              enabled |-> {},
              cancel_calls |-> [t \in TimerIds |-> 0]]
    /\ hw = [configures |-> 0, good_range |-> None, good_flow |-> None,
             released |-> FALSE]
    /\ spin = "spinning"
    /\ ticks = 0
    /\ last = Done("init", TRUE, "none", "none", <<>>, "no")
    /\ out = NoOut


\* ------------------------------------------------------------- terminate
Bump(f, k) == [f EXCEPT ![k] = @ + 1]

Event(kind, r) == [kind |-> kind, armed |-> Armed(r)]

\* terminate leaving the timer alone
TerminateTimer_skipped(tm, r, lib_raises) ==
    [rcl |-> r, raised |-> "none", log |-> <<>>]

\* lines 199-201: the timer part.  cancel() of a timer whose handle was
\* destroyed either raises InvalidHandle or does nothing (lib_raises);
\* destroy_timer() of a timer the node no longer holds does nothing.
TerminateTimer(tm, r, lib_raises) ==
    IF tm = None THEN [rcl |-> r, raised |-> "none", log |-> <<>>]
    ELSE LET r1 == [r EXCEPT !.cancel_calls = Bump(@, tm)]
         IN IF tm \notin r.timers /\ lib_raises
            THEN [rcl |-> r1, raised |-> "InvalidHandle", log |-> <<>>]
            ELSE LET cancels == tm \in Armed(r1)
                     r2 == [r1 EXCEPT !.cancelled = @ \cup {tm}]
                     destroys == tm \in r2.timers
                     r3 == [r2 EXCEPT !.timers = @ \ {tm}]
                 IN [rcl |-> r3, raised |-> "none",
                     log |-> (IF cancels THEN <<Event("timer.cancel", r1)>> ELSE <<>>)
                             \o (IF destroys THEN <<Event("timer.destroy", r2)>> ELSE <<>>)]

\* lines 202-203: destroy_publisher() of a publisher the node no longer
\* holds does nothing.
TerminatePublisher(pub, r) ==
    IF pub = None \/ pub \notin r.publishers
    THEN [rcl |-> r, log |-> <<>>]
    ELSE [rcl |-> [r EXCEPT !.publishers = @ \ {pub}],
          log |-> <<Event("publisher.destroy", r)>>]

\* lines 204-205: del removes the attribute, so the next read of
\* self._tf_broadcaster raises AttributeError.
TerminateBroadcaster(tf, r) ==
    IF tf = Deleted THEN [tf |-> tf, raised |-> "AttributeError", log |-> <<>>]
    ELSE IF tf = None THEN [tf |-> tf, raised |-> "none", log |-> <<>>]
    ELSE [tf |-> Deleted, raised |-> "none",
          log |-> <<Event("tf_broadcaster.del", r)>>]

\* terminate destroying the publisher before it cancels the timer
Terminate_publisherFirst(tm, pub, tf, r, lib_raises) ==
    LET p == TerminatePublisher(pub, r)
        t == TerminateTimer(tm, p.rcl, lib_raises)
    IN IF t.raised # "none"
       THEN [rcl |-> t.rcl, tf |-> tf, raised |-> t.raised, log |-> p.log \o t.log]
       ELSE LET b == TerminateBroadcaster(tf, t.rcl)
            IN [rcl |-> t.rcl, tf |-> b.tf, raised |-> b.raised,
                log |-> p.log \o t.log \o b.log]

\* OpticalFlowPublisher.terminate, lines 198-205, in program order
Terminate(tm, pub, tf, r, lib_raises) ==
    LET t == TerminateTimer(tm, r, lib_raises)
    IN IF t.raised # "none"
       THEN [rcl |-> t.rcl, tf |-> tf, raised |-> t.raised, log |-> t.log]
       ELSE LET p == TerminatePublisher(pub, t.rcl)
                b == TerminateBroadcaster(tf, p.rcl)
            IN [rcl |-> p.rcl, tf |-> b.tf, raised |-> b.raised,
                log |-> t.log \o p.log \o b.log]

\* "again" when an earlier terminate released resources and no configure
\* has succeeded since
TerminateTag == IF hw.released THEN "again" ELSE "first"

\* ------------------------------------------------- lifecycle transitions
\* rclpy __change_state: SUCCESS moves to the goal state, FAILURE back to
\* the start state; an exception is ERROR, and then on_error decides between
\* Unconfigured and Finalized.
AfterCallback(from, goal, ret, on_error_ok) ==
    CASE ret = "SUCCESS" -> goal
      [] ret = "FAILURE" -> from
      [] ret = "ERROR" -> IF on_error_ok THEN "Unconfigured" ELSE "Finalized"

\* a transition requested in a state it does not start from: no callback runs
request_rejected(tr) ==
    /\ spin = "spinning"
    /\ lc \notin ValidFrom(tr)
    /\ last' = Done(tr, FALSE, "none", "none", <<>>, "no")
    /\ out' = NoOut
    /\ UNCHANGED <<lc, params, at_configure, handleVars, poseVars, initVars, rcl, hw,
                   spin, ticks>>

\* lines 154-155
SensorClass(board) == IF board \in {"pmw3901", "paa5100"} THEN board ELSE "None"

\* OpticalFlowPublisher.on_configure, lines 148-178.  The n-th call names
\* what it creates n: the range session, the flow session, the publisher,
\* the broadcaster and the timer.
on_configure(range_ok, flow, on_error_ok) ==
    /\ spin = "spinning"
    /\ lc = "Unconfigured"
    /\ hw.configures < MaxConfigures
    /\ LET n == hw.configures + 1
           h1 == [hw EXCEPT !.configures = n]
           cls == SensorClass(params.board)
           range_open == [sensor |-> "range",
                          result |-> IF range_ok THEN "ok" ELSE "raises"]
           flow_open == [sensor |-> "flow", result |-> flow]
       IN IF ~range_ok
          THEN \* lines 151-152 raise; the exception leaves on_configure
               /\ hw' = h1
               /\ lc' = AfterCallback(lc, "Inactive", "ERROR", on_error_ok)
               /\ last' = Done("configure", TRUE, "ERROR", "OSError", <<>>, "no")
               /\ out' = [NoOut EXCEPT !.opens = <<range_open>>]
               /\ UNCHANGED <<at_configure, handleVars, rcl>>
          ELSE IF cls = "None"
          THEN \* lines 176-178
               /\ hw' = h1
               /\ _laser_range_finder' = n
               /\ lc' = AfterCallback(lc, "Inactive", "FAILURE", on_error_ok)
               /\ last' = Done("configure", TRUE, "FAILURE", "none", <<>>, "no")
               /\ out' = [NoOut EXCEPT !.opens = <<range_open>>]
               /\ UNCHANGED <<at_configure, _odom_pub, _tf_broadcaster, _timer,
                              _sensor, rcl>>
          ELSE IF flow # "ok"
          THEN \* lines 162-164
               /\ hw' = h1
               /\ _laser_range_finder' = n
               /\ _sensor' = IF flow = "ctor_raises" THEN _sensor ELSE n
               /\ lc' = AfterCallback(lc, "Inactive", "FAILURE", on_error_ok)
               /\ last' = Done("configure", TRUE, "FAILURE", "none", <<>>, "no")
               /\ out' = [NoOut EXCEPT !.opens = <<range_open, flow_open>>]
               /\ UNCHANGED <<at_configure, _odom_pub, _tf_broadcaster, _timer, rcl>>
          ELSE \* lines 166-172
               /\ _laser_range_finder' = n
               /\ _sensor' = n
               /\ _odom_pub' = n
               /\ _tf_broadcaster' = n
               /\ _timer' = n
               /\ at_configure' = <<params>>
               /\ rcl' = [rcl EXCEPT !.publishers = @ \cup {n},
                                     !.managed = @ \cup {n},
                                     !.timers = @ \cup {n}]
               /\ hw' = [h1 EXCEPT !.good_range = n, !.good_flow = n,
                                   !.released = FALSE]
               /\ lc' = AfterCallback(lc, "Inactive", "SUCCESS", on_error_ok)
               /\ last' = Done("configure", TRUE, "SUCCESS", "none", <<>>, "no")
               /\ out' = [NoOut EXCEPT !.opens = <<range_open, flow_open>>]
    /\ UNCHANGED <<params, poseVars, initVars, spin, ticks>>

\* activate accepted in Unconfigured as well
on_activate_anyState ==
    /\ spin = "spinning"
    /\ lc \in {"Unconfigured", "Inactive"}
    /\ rcl' = [rcl EXCEPT !.enabled = rcl.managed]
    /\ lc' = "Active"
    /\ last' = Done("activate", TRUE, "SUCCESS", "none", <<>>, "no")
    /\ out' = NoOut
    /\ UNCHANGED <<params, at_configure, handleVars, poseVars, initVars, hw, spin,
                   ticks>>

\* OpticalFlowPublisher.on_activate, lines 180-182: the base class enables
\* every lifecycle publisher the node has created
on_activate ==
    /\ spin = "spinning"
    /\ lc = "Inactive"
    /\ rcl' = [rcl EXCEPT !.enabled = rcl.managed]
    /\ lc' = "Active"
    /\ last' = Done("activate", TRUE, "SUCCESS", "none", <<>>, "no")
    /\ out' = NoOut
    /\ UNCHANGED <<params, at_configure, handleVars, poseVars, initVars, hw, spin,
                   ticks>>

\* deactivate clearing the filter state
on_deactivate_clearsFilter ==
    /\ spin = "spinning"
    /\ lc = "Active"
    /\ rcl' = [rcl EXCEPT !.enabled = {}]
    /\ lc' = "Inactive"
    /\ _filtered_dx' = Zero
    /\ _filtered_dy' = Zero
    /\ last' = Done("deactivate", TRUE, "SUCCESS", "none", <<>>, "no")
    /\ out' = NoOut
    /\ UNCHANGED <<params, at_configure, handleVars, _pos_x, _pos_y, initVars, hw,
                   spin, ticks>>

\* OpticalFlowPublisher.on_deactivate, lines 184-186
on_deactivate ==
    /\ spin = "spinning"
    /\ lc = "Active"
    /\ rcl' = [rcl EXCEPT !.enabled = {}]
    /\ lc' = "Inactive"
    /\ last' = Done("deactivate", TRUE, "SUCCESS", "none", <<>>, "no")
    /\ out' = NoOut
    /\ UNCHANGED <<params, at_configure, handleVars, poseVars, initVars, hw, spin,
                   ticks>>

\* line 219, reached when terminate did not raise: destroy_node destroys what
\* the node still holds
DestroyNode(r) == [r EXCEPT !.timers = {}, !.publishers = {}]

\* what on_cleanup, on_shutdown and main's finally share: run terminate
RunTerminate(op, goal, lib_raises, on_error_ok) ==
    LET t == Terminate(_timer, _odom_pub, _tf_broadcaster, rcl, lib_raises)
        ret == IF t.raised = "none" THEN "SUCCESS" ELSE "ERROR"
    IN /\ rcl' = IF op = "main_exit" /\ t.raised = "none"
                 THEN DestroyNode(t.rcl) ELSE t.rcl
       /\ _tf_broadcaster' = t.tf
       /\ _timer # None => rcl.cancel_calls[_timer] < MaxCancelCalls
       /\ hw' = [hw EXCEPT !.released = @ \/ t.log # <<>>]
       /\ at_configure' = <<>>
       /\ lc' = IF goal = "none" THEN lc
                ELSE AfterCallback(lc, goal, ret, on_error_ok)
       /\ last' = Done(op, TRUE, IF goal = "none" THEN "none" ELSE ret,
                       t.raised, t.log, TerminateTag)
       /\ out' = NoOut
       /\ UNCHANGED <<params, _odom_pub, _timer, _laser_range_finder, _sensor,
                      poseVars, initVars, ticks>>

\* cleanup returning SUCCESS without running terminate
on_cleanup_withoutTerminate(lib_raises, on_error_ok) ==
    /\ spin = "spinning"
    /\ lc = "Inactive"
    /\ lc' = "Unconfigured"
    /\ at_configure' = <<>>
    /\ last' = Done("cleanup", TRUE, "SUCCESS", "none", <<>>, "no")
    /\ out' = NoOut
    /\ UNCHANGED <<params, handleVars, poseVars, initVars, rcl, hw, spin, ticks>>

\* OpticalFlowPublisher.on_cleanup, lines 188-191
on_cleanup(lib_raises, on_error_ok) ==
    /\ spin = "spinning"
    /\ lc = "Inactive"
    /\ RunTerminate("cleanup", "Unconfigured", lib_raises, on_error_ok)
    /\ UNCHANGED spin

\* OpticalFlowPublisher.on_shutdown, lines 193-196
on_shutdown(lib_raises, on_error_ok) ==
    /\ spin = "spinning"
    /\ lc \in {"Unconfigured", "Inactive", "Active"}
    /\ RunTerminate("shutdown", "Finalized", lib_raises, on_error_ok)
    /\ UNCHANGED spin

\* main, lines 211-219: spin ends with KeyboardInterrupt or
\* ExternalShutdownException (or with the exception a tick raised), and the
\* finally block runs terminate and then destroy_node
main_exit(lib_raises) ==
    /\ spin \in {"spinning", "exception"}
    /\ RunTerminate("main_exit", "none", lib_raises, TRUE)
    /\ spin' = "exited"

\* a parameter service call while the node spins
set_parameter(name, value) ==
    /\ spin = "spinning"
    /\ params[name] # value
    /\ params' = [params EXCEPT ![name] = value]
    /\ last' = Done("set_parameter", TRUE, "none", "none", <<>>, "no")
    /\ out' = NoOut
    /\ UNCHANGED <<lc, at_configure, handleVars, poseVars, initVars, rcl, hw, spin,
                   ticks>>


\* ---------------------------------------------------------- publish_odom
\* the guard without the is_activated test
Publishing_withoutActivation(pub, r) == pub # None

\* the guard testing that the publisher exists in the node, not that it is
\* activated
Publishing_whenCreated(pub, r) == pub # None /\ pub \in r.publishers

\* line 84
Publishing(pub, r) == pub # None /\ pub \in r.enabled

\* line 85: range / 1000.0
PosZ(range_mm) == FDiv(FromInt(range_mm), FromInt(1000))

\* a failed flow read counted as one pixel of motion
get_motion_failureAsMotion(sensor, motion) ==
    IF sensor = None \/ motion = MotionRaises
    THEN [failed |-> TRUE, dx |-> FromInt(1), dy |-> Zero]
    ELSE [failed |-> FALSE, dx |-> FromInt(motion[1]), dy |-> FromInt(motion[2])]

\* lines 87-90: get_motion raises RuntimeError on timeout and the call raises
\* AttributeError when _sensor is None; both give (0.0, 0.0)
get_motion(sensor, motion) ==
    IF sensor = None \/ motion = MotionRaises
    THEN [failed |-> TRUE, dx |-> Zero, dy |-> Zero]
    ELSE [failed |-> FALSE, dx |-> FromInt(motion[1]), dy |-> FromInt(motion[2])]

\* lines 92-94
Cf(pos_z, scaler) ==
    FDiv(FMul(FMul(pos_z, FromInt(2)), TanHalfFov), FromInt(RES_PIX * scaler))

\* the filter applied to every board, not only to pmw3901
Integrate_filterEveryBoard(board, x, y, fdx, fdy, cf, pmw, dx, dy) ==
    LET dist_x == IF board = "paa5100" THEN FMul(FMul(FromInt(-1), cf), dy)
                  ELSE IF board = "pmw3901" THEN FMul(FMul(pmw, cf), dx) ELSE Zero
        dist_y == IF board = "paa5100" THEN FMul(cf, dx)
                  ELSE IF board = "pmw3901" THEN FMul(FMul(pmw, cf), dy) ELSE Zero
        nfdx == FAdd(FMul(alpha, dist_x), FMul(FSub(FromInt(1), alpha), fdx))
        nfdy == FAdd(FMul(alpha, dist_y), FMul(FSub(FromInt(1), alpha), fdy))
    IN [dist_x |-> dist_x, dist_y |-> dist_y, fdx |-> nfdx, fdy |-> nfdy,
        add_x |-> nfdx, add_y |-> nfdy,
        x |-> FAdd(x, nfdx), y |-> FAdd(y, nfdy)]

\* paa5100 without the change of frame
IntegratePaa_unrotated(x, y, fdx, fdy, cf, dx, dy) ==
    LET dist_x == FMul(cf, dx)
        dist_y == FMul(cf, dy)
    IN [dist_x |-> dist_x, dist_y |-> dist_y, fdx |-> fdx, fdy |-> fdy,
        add_x |-> dist_x, add_y |-> dist_y,
        x |-> FAdd(x, dist_x), y |-> FAdd(y, dist_y)]

\* lines 96-104: paa5100
IntegratePaa(x, y, fdx, fdy, cf, dx, dy) ==
    LET dist_x == FMul(FMul(FromInt(-1), cf), dy)
        dist_y == FMul(cf, dx)
    IN [dist_x |-> dist_x, dist_y |-> dist_y, fdx |-> fdx, fdy |-> fdy,
        add_x |-> dist_x, add_y |-> dist_y,
        x |-> FAdd(x, dist_x), y |-> FAdd(y, dist_y)]

\* lines 110-111: the low-pass filter
Filter(dist, filtered) ==
    FAdd(FMul(alpha, dist), FMul(FSub(FromInt(1), alpha), filtered))

\* lines 105-114: pmw3901
IntegratePmw(x, y, fdx, fdy, cf, pmw, dx, dy) ==
    LET dist_x == FMul(FMul(pmw, cf), dx)
        dist_y == FMul(FMul(pmw, cf), dy)
        nfdx == Filter(dist_x, fdx)
        nfdy == Filter(dist_y, fdy)
    IN [dist_x |-> dist_x, dist_y |-> dist_y, fdx |-> nfdx, fdy |-> nfdy,
        add_x |-> nfdx, add_y |-> nfdy,
        x |-> FAdd(x, nfdx), y |-> FAdd(y, nfdy)]

\* an unrecognised board treated as one pixel of motion per tick
IntegrateOther_unitStep(x, y, fdx, fdy) ==
    [dist_x |-> FromInt(1), dist_y |-> Zero, fdx |-> fdx, fdy |-> fdy,
     add_x |-> FromInt(1), add_y |-> Zero,
     x |-> FAdd(x, FromInt(1)), y |-> FAdd(y, Zero)]

\* lines 115-118: any other board
IntegrateOther(x, y, fdx, fdy) ==
    [dist_x |-> Zero, dist_y |-> Zero, fdx |-> fdx, fdy |-> fdy,
     add_x |-> Zero, add_y |-> Zero,
     x |-> FAdd(x, Zero), y |-> FAdd(y, Zero)]

\* lines 96-118: the displacement of this tick, the filter and the position
Integrate(board, x, y, fdx, fdy, cf, pmw, dx, dy) ==
    IF board = "paa5100" THEN IntegratePaa(x, y, fdx, fdy, cf, dx, dy)
    ELSE IF board = "pmw3901" THEN IntegratePmw(x, y, fdx, fdy, cf, pmw, dx, dy)
    ELSE IntegrateOther(x, y, fdx, fdy)

\* the displacement reported as it is, not divided by the period
Velocity_undivided(dist, dt) == dist

\* line 133
Velocity(dist, dt) == FDiv(dist, dt)

\* lines 123-135
OdomMsg(stamp, p, x, y, z, vx, vy) ==
    [stamp |-> stamp, frame_id |-> p.parent_frame,
     child_frame_id |-> p.child_frame, x |-> x, y |-> y, z |-> z,
     vx |-> vx, vy |-> vy]

\* a transform stamped one tick behind the odometry record
TfMsg_staleStamp(odom) ==
    [stamp |-> odom.stamp - 1, frame_id |-> odom.frame_id,
     child_frame_id |-> odom.child_frame_id,
     x |-> odom.x, y |-> odom.y, z |-> odom.z]

\* lines 139-145
TfMsg(odom) ==
    [stamp |-> odom.stamp, frame_id |-> odom.frame_id,
     child_frame_id |-> odom.child_frame_id,
     x |-> odom.x, y |-> odom.y, z |-> odom.z]

\* OpticalFlowPublisher.publish_odom, lines 83-146, called by timer tm.
\* range_mm is what the range sensor answers, motion what get_motion answers.
publish_odom(tm, range_mm, motion) ==
    /\ spin = "spinning"
    /\ tm \in Armed(rcl)
    /\ ticks < MaxTicks
    /\ IF ~Publishing(_odom_pub, rcl)
       THEN /\ last' = Done("tick", TRUE, "none", "none", <<>>, "no")
            /\ out' = NoOut
            /\ UNCHANGED <<poseVars, spin, ticks>>
       ELSE IF _laser_range_finder = None \/ range_mm = RangeRaises
       THEN \* line 85 raises; the exception leaves the callback and spin
            /\ last' = Done("tick", TRUE, "none",
                            IF _laser_range_finder = None
                            THEN "AttributeError" ELSE "OSError", <<>>, "no")
            /\ out' = [NoOut EXCEPT !.reads =
                         <<[sensor |-> "range", handle |-> _laser_range_finder]>>]
            /\ spin' = "exception"
            /\ UNCHANGED <<poseVars, ticks>>
       ELSE LET pos_z == PosZ(range_mm)
                m == get_motion(_sensor, motion)
                failed == m.failed
                dx == m.dx
                dy == m.dy
                \* line 146 raises when there is no broadcaster object
                tf_raises == /\ params.publish_tf = TRUE
                             /\ _tf_broadcaster \in {None, Deleted}
                after_failed == /\ last.op = "tick" /\ out.tick # <<>>
                                /\ out.tick[1].failed
                cf == Cf(pos_z, _scaler)
                i == Integrate(params.board, _pos_x, _pos_y, _filtered_dx,
                               _filtered_dy, cf, _pmw3901_scaler, dx, dy)
                odom == OdomMsg(ticks + 1, params, i.x, i.y, pos_z,
                                Velocity(i.dist_x, _dt), Velocity(i.dist_y, _dt))
            IN /\ ticks' = ticks + 1
               /\ _pos_x' = i.x
               /\ _pos_y' = i.y
               /\ _filtered_dx' = i.fdx
               /\ _filtered_dy' = i.fdy
               /\ last' = Done("tick", TRUE, "none",
                               IF tf_raises THEN "AttributeError" ELSE "none",
                               <<>>, "no")
               /\ spin' = IF tf_raises THEN "exception" ELSE spin
               /\ out' = [opens |-> <<>>, odom |-> <<odom>>,
                          tf |-> IF params.publish_tf = TRUE /\ ~tf_raises
                                 THEN <<TfMsg(odom)>> ELSE <<>>,
                          reads |-> <<[sensor |-> "range",
                                       handle |-> _laser_range_finder],
                                      [sensor |-> "flow", handle |-> _sensor]>>,
                          tick |-> <<[board |-> params.board, range_mm |-> range_mm,
                                      motion |-> motion,
                                      after_failed |-> after_failed,
                                      publish_tf |-> params.publish_tf,
                                      dx |-> dx, dy |-> dy, failed |-> failed,
                                      cf |-> cf, x0 |-> _pos_x, y0 |-> _pos_y,
                                      fdx0 |-> _filtered_dx, fdy0 |-> _filtered_dy,
                                      dist_x |-> i.dist_x, dist_y |-> i.dist_y,
                                      add_x |-> i.add_x, add_y |-> i.add_y]>>]
    /\ UNCHANGED <<lc, params, at_configure, handleVars, initVars, rcl, hw>>

\* ----------------------------------------------------------- specification
\* what the sensors answer in the lifecycle specification: one height or an
\* exception, one displacement or the timeout
LifecycleRangeAnswers == {800, RangeRaises}
LifecycleMotionAnswers == {<<1, 0>>, MotionRaises}

Next ==
    \/ \E tr \in Transitions : request_rejected(tr)
    \/ \E range_ok \in BOOLEAN, flow \in FlowOpenOutcomes, on_error_ok \in BOOLEAN :
          on_configure(range_ok, flow, on_error_ok)
    \/ on_activate
    \/ on_deactivate
    \/ \E lib_raises \in BOOLEAN, on_error_ok \in BOOLEAN :
          on_cleanup(lib_raises, on_error_ok)
    \/ \E lib_raises \in BOOLEAN, on_error_ok \in BOOLEAN :
          on_shutdown(lib_raises, on_error_ok)
    \/ \E lib_raises \in BOOLEAN : main_exit(lib_raises)
    \/ \E name \in ParamNames : \E value \in ParamValues(name) :
          set_parameter(name, value)
    \/ \E tm \in TimerIds, range_mm \in LifecycleRangeAnswers,
          motion \in LifecycleMotionAnswers :
          ticks < MaxLifecycleTicks /\ publish_odom(tm, range_mm, motion)

\* the node under its lifecycle manager, with at most MaxLifecycleTicks
\* published ticks
Spec == Init /\ [][Next]_vars

\* The odometry pipeline on its own: the node as configure and activate leave
\* it (first timer armed, publisher enabled), then only timer callbacks and
\* parameter changes.
InitOdom ==
    /\ lc = "Active"
    /\ \E board \in {"pmw3901", "paa5100"} :
          /\ params = [DefaultParams EXCEPT !.board = board]
          /\ at_configure = <<params>>
    /\ _odom_pub = 1
    /\ _tf_broadcaster = 1
    /\ _timer = 1
    /\ _laser_range_finder = 1
    /\ _sensor = 1
    /\ \E init \in OdomInitCoords :
          /\ _pos_x = FromInt(init[1])
          /\ _filtered_dx = FromInt(init[1])
          /\ _pos_y = FromInt(init[2])
          /\ _filtered_dy = FromInt(init[2])
    /\ _scaler = DefaultParams.scaler
    /\ _pmw3901_scaler = DefaultParams.pmw3901_scaler
    /\ _dt = DefaultParams.timer_period
    /\ rcl = [timers |-> {1}, cancelled |-> {}, publishers |-> {1},
              managed |-> {1}, enabled |-> {1},
              cancel_calls |-> [t \in TimerIds |-> 0]]
    /\ hw = [configures |-> 1, good_range |-> 1, good_flow |-> 1,
             released |-> FALSE]
    /\ spin = "spinning"
    /\ ticks = 0
    /\ last = Done("activate", TRUE, "SUCCESS", "none", <<>>, "no")
    /\ out = NoOut

NextOdom ==
    \/ \E name \in ParamNames : \E value \in ParamValues(name) :
          set_parameter(name, value)
    \/ \E tm \in TimerIds, range_mm \in RangeAnswers, motion \in MotionAnswers :
          publish_odom(tm, range_mm, motion)

SpecOdom == InitOdom /\ [][NextOdom]_vars

\* The pmw3901 filter at steady state: x_init is a scaled displacement
\* pmw3901_scaler * cf * dx that a tick can measure, so that the filter state
\* equals the new displacement on a tick that measures it.
SteadyRangesMm == {350, 550, 700, 950}
SteadyPixels == {1, 7, 9}

InitFilter ==
    /\ lc = "Active"
    /\ params = DefaultParams
    /\ at_configure = <<params>>
    /\ _odom_pub = 1
    /\ _tf_broadcaster = 1
    /\ _timer = 1
    /\ _laser_range_finder = 1
    /\ _sensor = 1
    /\ \E range_mm \in SteadyRangesMm, dx \in SteadyPixels :
          LET x_init == FMul(FMul(DefaultParams.pmw3901_scaler,
                                  Cf(PosZ(range_mm), DefaultParams.scaler)),
                             FromInt(dx))
          IN /\ _pos_x = x_init
             /\ _filtered_dx = x_init
    /\ _pos_y = Zero
    /\ _filtered_dy = Zero
    /\ _scaler = DefaultParams.scaler
    /\ _pmw3901_scaler = DefaultParams.pmw3901_scaler
    /\ _dt = DefaultParams.timer_period
    /\ rcl = [timers |-> {1}, cancelled |-> {}, publishers |-> {1},
              managed |-> {1}, enabled |-> {1},
              cancel_calls |-> [t \in TimerIds |-> 0]]
    /\ hw = [configures |-> 1, good_range |-> 1, good_flow |-> 1,
             released |-> FALSE]
    /\ spin = "spinning"
    /\ ticks = 0
    /\ last = Done("activate", TRUE, "SUCCESS", "none", <<>>, "no")
    /\ out = NoOut

NextFilter ==
    \E tm \in TimerIds, range_mm \in SteadyRangesMm, dx \in SteadyPixels :
       publish_odom(tm, range_mm, <<dx, 0>>)

SpecFilter == InitFilter /\ [][NextFilter]_vars

\* ------------------------------------------------------------- properties
TickSent == last.op = "tick" /\ out.odom # <<>>
T == out.tick[1]
O == out.odom[1]
KnownBoards == {"pmw3901", "paa5100"}

\* C1: a tick hands an odometry record or a transform record to the
\* transport only when the lifecycle state is Active.
C1_OutputOnlyWhenActive ==
    (last.op = "tick" /\ (out.odom # <<>> \/ out.tf # <<>>)) => lc = "Active"

C1_Witness ==
    /\ last.op = "tick" /\ lc = "Active"
    /\ Len(out.odom) = 1 /\ Len(out.tf) = 1

\* C2: whenever the tick handler reads a sensor, both handles are the ones
\* the most recent successful configure opened, and neither cleanup, shutdown
\* nor terminate has released anything since that configure.
C2_ReadsUseOpenHandles ==
    (last.op = "tick" /\ out.reads # <<>>) =>
        /\ _laser_range_finder # None /\ _laser_range_finder = hw.good_range
        /\ _sensor # None /\ _sensor = hw.good_flow
        /\ ~hw.released
        /\ \A i \in 1 .. Len(out.reads) :
              out.reads[i].handle =
                 IF out.reads[i].sensor = "range" THEN hw.good_range
                 ELSE hw.good_flow

\* both sensors read by a tick after configure, cleanup, configure
C2_Witness ==
    /\ last.op = "tick" /\ Len(out.reads) = 2
    /\ hw.good_range = 2 /\ _timer = 2

\* C3: configure with a board that is neither pmw3901 nor paa5100 fails,
\* leaves the state Unconfigured and has opened no hardware session (stated
\* for the configures in which no hardware call raised).
C3_UnknownBoardOpensNothing ==
    (last.op = "configure" /\ last.accepted /\ params.board \notin KnownBoards
       /\ \A i \in 1 .. Len(out.opens) : out.opens[i].result = "ok") =>
        /\ last.ret = "FAILURE"
        /\ lc = "Unconfigured"
        /\ out.opens = <<>>

\* C4: when opening the range or the flow sensor fails during configure, the
\* callback returns FAILURE without raising, the state stays Unconfigured and
\* no sensor handle, timer, publisher or broadcaster is held.
C4_OpenFailureLeavesNothing ==
    (last.op = "configure" /\ last.accepted
       /\ \E i \in 1 .. Len(out.opens) : out.opens[i].result # "ok") =>
        /\ last.raised = "none"
        /\ last.ret = "FAILURE"
        /\ lc = "Unconfigured"
        /\ _laser_range_finder = None /\ _sensor = None
        /\ _timer = None /\ _odom_pub = None /\ _tf_broadcaster = None

\* C5: shutdown reaches Finalized from every state, and over cleanup, shutdown
\* and main's terminate the release of a timer (cancel, then destroy_timer)
\* is started at most once.
C5_ShutdownReleasesTimerOnce ==
    /\ (last.op = "shutdown" /\ last.accepted) => lc = "Finalized"
    /\ \A t \in TimerIds : rcl.cancel_calls[t] <= 1

\* C6: a terminate that runs after resources were already released raises
\* nothing and releases nothing.
C6_SecondTerminateIsNoOp ==
    last.terminated = "again" => (last.raised = "none" /\ last.log = <<>>)

\* C7: after cleanup or shutdown the timer and the publisher are released and
\* both sensor handles are dropped.
C7_TeardownDropsEverything ==
    (last.op \in {"cleanup", "shutdown"} /\ last.accepted) =>
        /\ _timer \notin rcl.timers
        /\ _odom_pub \notin rcl.publishers
        /\ _laser_range_finder = None
        /\ _sensor = None

\* C8: in every terminate, no timer is armed any more when the publisher or
\* the transform broadcaster is released, and no timer is armed in Finalized
\* or after a cleanup.
C8_TimerCancelledFirst ==
    /\ \A i \in 1 .. Len(last.log) :
          last.log[i].kind \notin {"timer.cancel", "timer.destroy"} =>
             last.log[i].armed = {}
    /\ lc = "Finalized" => Armed(rcl) = {}
    /\ (last.op = "cleanup" /\ last.accepted) => Armed(rcl) = {}

C8_Witness ==
    /\ last.op = "shutdown" /\ lc = "Finalized"
    /\ Len(last.log) = 4
    /\ last.log[1].kind = "timer.cancel" /\ last.log[1].armed # {}
    /\ last.log[3].kind = "publisher.destroy"

\* C9 as stated: an Active tick with zero pixel displacement leaves x and y
\* unchanged, whatever the board and the filter state.
C9_ZeroFlowKeepsPosition ==
    (TickSent /\ T.dx = Zero /\ T.dy = Zero) =>
        (_pos_x = T.x0 /\ _pos_y = T.y0)

\* C9 amended: an Active tick with zero pixel displacement leaves x and y
\* unchanged when the board is not pmw3901, and for pmw3901 leaves unchanged
\* the coordinate whose filter state is zero; for pmw3901 the filter state is
\* multiplied by 1 - alpha and added to x and y.
C9_ZeroFlowKeepsPositionUnlessFiltered ==
    (TickSent /\ T.dx = Zero /\ T.dy = Zero) =>
        /\ (T.board # "pmw3901" \/ T.fdx0 = Zero) => _pos_x = T.x0
        /\ (T.board # "pmw3901" \/ T.fdy0 = Zero) => _pos_y = T.y0
        /\ T.board = "pmw3901" =>
              /\ _filtered_dx = FMul(FSub(FromInt(1), alpha), T.fdx0)
              /\ _filtered_dy = FMul(FSub(FromInt(1), alpha), T.fdy0)
              /\ _pos_x = FAdd(T.x0, _filtered_dx)
              /\ _pos_y = FAdd(T.y0, _filtered_dy)

\* zero flow at a positive height on pmw3901 with a filter state that is zero
\* in y only: y is kept, x moves by the decayed filter state
C9_Witness ==
    /\ TickSent /\ T.dx = Zero /\ T.dy = Zero
    /\ T.board = "pmw3901" /\ T.range_mm > 0
    /\ T.fdx0 # Zero /\ T.fdy0 = Zero
    /\ _pos_y = T.y0 /\ _pos_x # T.x0

\* C10 as stated: the reported linear velocity is the displacement added to
\* x and y on the same tick, divided by dt.
C10_VelocityIsAddedDisplacement ==
    TickSent =>
        /\ O.vx = FDiv(T.add_x, _dt)
        /\ O.vy = FDiv(T.add_y, _dt)

\* C10 amended: for every board but pmw3901 the reported velocity is the
\* displacement added to x and y divided by dt; for pmw3901 it is the
\* unfiltered scaled displacement divided by dt, while the filtered value is
\* what is added to x and y.
C10_VelocityIsUnfilteredDisplacement ==
    TickSent =>
        /\ _pos_x = FAdd(T.x0, T.add_x) /\ _pos_y = FAdd(T.y0, T.add_y)
        /\ T.board # "pmw3901" =>
              /\ O.vx = FDiv(T.add_x, _dt)
              /\ O.vy = FDiv(T.add_y, _dt)
        /\ T.board = "pmw3901" =>
              /\ T.add_x = _filtered_dx /\ T.add_y = _filtered_dy
              /\ O.vx = FDiv(FMul(FMul(_pmw3901_scaler, T.cf), T.dx), _dt)
              /\ O.vy = FDiv(FMul(FMul(_pmw3901_scaler, T.cf), T.dy), _dt)

\* a pmw3901 tick whose velocity differs from what was added, and is not zero
C10_Witness ==
    /\ TickSent /\ T.board = "pmw3901"
    /\ O.vx # Zero /\ O.vx # FDiv(T.add_x, _dt)

\* C11: every calibration value a tick uses (board, frame names, scale
\* factors, tick period, transform toggle) equals the value that parameter
\* had at the most recent successful configure.
C11_TickUsesConfigureTimeValues ==
    TickSent =>
        /\ at_configure # <<>>
        /\ T.board = at_configure[1].board
        /\ T.publish_tf = at_configure[1].publish_tf
        /\ O.frame_id = at_configure[1].parent_frame
        /\ O.child_frame_id = at_configure[1].child_frame
        /\ _scaler = at_configure[1].scaler
        /\ _pmw3901_scaler = at_configure[1].pmw3901_scaler
        /\ _dt = at_configure[1].timer_period

C13_TransformMirrorsOdometry ==
    TickSent =>
        /\ (out.tf # <<>>) <=> (params.publish_tf = TRUE)
        /\ out.tf # <<>> =>
              /\ Len(out.tf) = 1
              /\ out.tf[1].stamp = O.stamp
              /\ out.tf[1].frame_id = O.frame_id
              /\ out.tf[1].child_frame_id = O.child_frame_id
              /\ out.tf[1].x = O.x /\ out.tf[1].y = O.y /\ out.tf[1].z = O.z

\* a transform sent at a positive height by a node configured with the toggle
\* off and switched on afterwards
C13_Witness ==
    /\ TickSent /\ Len(out.tf) = 1
    /\ at_configure # <<>> /\ at_configure[1].publish_tf = FALSE
    /\ out.tf[1].z = O.z /\ O.z # Zero

\* C14: an activate request is accepted only in Inactive; elsewhere it is
\* rejected and changes neither the lifecycle state, the handles, the timer
\* nor the pose; when accepted it enables the publisher and opens, reads and
\* releases nothing.
C14_ActivateOnlyFromInactive ==
    [][last'.op = "activate" =>
         IF lc = "Inactive"
         THEN /\ last'.accepted /\ lc' = "Active"
              /\ UNCHANGED <<handleVars, poseVars, hw>>
              /\ rcl' = [rcl EXCEPT !.enabled = rcl.managed]
              /\ out'.opens = <<>> /\ out'.reads = <<>>
         ELSE /\ ~last'.accepted
              /\ UNCHANGED <<lc, handleVars, poseVars, hw, rcl>>]_vars

\* activate rejected in Active after a tick has moved the pose
C14_Witness ==
    /\ last.op = "activate" /\ ~last.accepted
    /\ lc = "Active" /\ ticks > 0

\* C15: only the tick handler changes x, y, filtered_dx and filtered_dy.
C15_PoseChangedOnlyByTick ==
    [][last'.op # "tick" => UNCHANGED poseVars]_vars

\* a second successful configure that finds the pose an earlier tick left
C15_Witness ==
    /\ last.op = "configure" /\ last.ret = "SUCCESS"
    /\ hw.configures = 2 /\ ticks > 0
    /\ \A init \in InitCoords :
          <<_pos_x, _pos_y>> # <<FromInt(init[1]), FromInt(init[2])>>

\* C16: a paa5100 tick adds (-cf*dy, cf*dx) to (x, y), so (1, 0) adds (0, cf)
\* and (0, 1) adds (-cf, 0), and leaves filtered_dx and filtered_dy unchanged.
C16_PaaRotatesAndDoesNotFilter ==
    (TickSent /\ T.board = "paa5100") =>
        /\ T.add_x = FNeg(FMul(T.cf, T.dy))
        /\ T.add_y = FMul(T.cf, T.dx)
        /\ _pos_x = FAdd(T.x0, T.add_x)
        /\ _pos_y = FAdd(T.y0, T.add_y)
        /\ _filtered_dx = T.fdx0 /\ _filtered_dy = T.fdy0
        /\ (T.dx = FromInt(1) /\ T.dy = Zero) =>
              (T.add_x = Zero /\ T.add_y = T.cf)
        /\ (T.dx = Zero /\ T.dy = FromInt(1)) =>
              (T.add_x = FNeg(T.cf) /\ T.add_y = Zero)

\* a paa5100 tick at a positive height with motion on both axes
C16_Witness ==
    /\ TickSent /\ T.board = "paa5100"
    /\ T.cf # Zero /\ T.dx # Zero /\ T.dy # Zero
    /\ _pos_x # T.x0 /\ _pos_y # T.y0

\* C17: on a pmw3901 tick whose new scaled displacement equals the previous
\* filtered value, the filtered value after the tick equals the previous one
\* exactly, and x, y advance by exactly that value.
C17_FilterIdempotentAtSteadyState ==
    (TickSent /\ T.board = "pmw3901") =>
        /\ T.dist_x = T.fdx0 =>
              (_filtered_dx = T.fdx0 /\ _pos_x = FAdd(T.x0, T.fdx0))
        /\ T.dist_y = T.fdy0 =>
              (_filtered_dy = T.fdy0 /\ _pos_y = FAdd(T.y0, T.fdy0))

\* C18: an Active tick with a board that is neither paa5100 nor pmw3901
\* leaves x, y and the filter state unchanged, reports velocity (0, 0) and
\* still emits the odometry record.
C18_UnknownBoardIsZeroDisplacement ==
    (last.op = "tick" /\ out.tick # <<>> /\ T.board \notin KnownBoards) =>
        /\ Len(out.odom) = 1
        /\ _pos_x = T.x0 /\ _pos_y = T.y0
        /\ _filtered_dx = T.fdx0 /\ _filtered_dy = T.fdy0
        /\ O.x = T.x0 /\ O.y = T.y0
        /\ O.vx = Zero /\ O.vy = Zero

\* an unknown board set while running, with the sensor reporting motion
C18_Witness ==
    /\ TickSent /\ T.board = "other"
    /\ T.dx # Zero /\ T.cf # Zero /\ T.fdx0 # Zero

\* C19: a tick that fires while the state is not Active reads no sensor,
\* sends nothing and leaves x, y and the filter state unchanged.
C19_InactiveTickDoesNothing ==
    [][(last'.op = "tick" /\ lc # "Active") =>
          /\ out' = NoOut
          /\ UNCHANGED poseVars]_vars

\* a tick fired by the armed timer in Inactive
C19_Witness ==
    /\ last.op = "tick" /\ lc = "Inactive"
    /\ _timer \in Armed(rcl) /\ out.reads = <<>>

\* C20: at most one timer is armed at any time, and when one is armed the
\* publisher, the broadcaster and both sensor handles are those created by
\* the successful configure that created the timer.
C20_OneTimerWithItsOwnResources ==
    /\ Cardinality(Armed(rcl)) <= 1
    /\ \A t \in Armed(rcl) :
          /\ _timer = t /\ _odom_pub = t /\ _tf_broadcaster = t
          /\ _laser_range_finder = t /\ _sensor = t
          /\ hw.good_range = t /\ hw.good_flow = t
          /\ t \in rcl.publishers

\* the timer of a second configure armed after the first pipeline was cleaned
\* up
C20_Witness ==
    /\ Armed(rcl) = {2} /\ lc = "Inactive"
    /\ 1 \in rcl.cancelled /\ _odom_pub = 2

====
